---- MODULE Spec2Model ----
(***************************************************************************)
(* Model of the Cinematic Video Optimizer request handlers:                *)
(*   optimize_video           (src/main.py, POST /optimize-video)          *)
(*   optimize_video_from_url  (src/main.py, POST /optimize-video-url)      *)
(*   handler.do_POST          (src/api/index.py, serverless POST)          *)
(* The state is the temporary-file namespace of the local filesystem, the  *)
(* per-process string-hash seed, and one record per request slot holding   *)
(* the request's inputs, the handler's local variables and its position.   *)
(* Strings are sequences of tokens; a URL or identifier is non-empty when  *)
(* its sequence is.                                                        *)
(***************************************************************************)
EXTENDS Integers, Sequences, FiniteSets, TLC

\* ------------------------------------------------------------- bounds
\* Number of request slots (requests that can be in flight together).
NumReq == 2
\* Number of names in the temporary-file namespace.
MaxNames == 2

\* ------------------------------------------------- program constants
\* hash(customerEmail) % 10000
HashMod == 10000
\* the two eager derivatives requested from the provider (mp4, webm)
NumEager == 2

Req == 1..NumReq
Names == 1..MaxNames
HashSeeds == {1, 2}

Handlers == {"optimize_video", "optimize_video_from_url", "do_POST"}

\* ------------------------------------------------------------- values
Some(v) == [some |-> TRUE, val |-> v]
Nothing == [some |-> FALSE, val |-> <<>>]

\* Declared content types of the uploaded part (None when the part has none).
ContentTypes == {Some(<<"video/", "mp4">>), Some(<<"image/", "png">>), Nothing}
\* Bytes of an uploaded file.
FileBytes == {<<>>, <<65>>}
\* The videoFile member of a JSON body: absent, "", data URLs (with payload,
\* with an empty payload, without a comma, with broken padding), and a URL.
VideoFiles ==
    { Nothing,
      Some(<<>>),
      Some(<<"data:", "video/mp4;base64", ",", "QQ==">>),
      Some(<<"data:", "video/mp4;base64", ",">>),
      Some(<<"data:", "video/mp4;base64">>),
      Some(<<"data:", "video/mp4;base64", ",", "Q">>),
      Some(<<"https://cdn.example/v.mp4">>) }
\* Project names, as sequences of characters.
Projects == {<<"A", " ", "b">>, <<"a", "b">>}
Emails == {"ann@x.io", "bob@y.io"}
\* Failure texts of the provider's upload call.
ErrTexts == {"Invalid cloud_name", "Request Timeout"}

\* A path handed to the provider or to os.unlink: a temp file of this
\* service, or the client's string.
TmpPath(n) == [kind |-> "tmp", name |-> n, text |-> <<>>]
ClientPath(s) == [kind |-> "client", name |-> 0, text |-> s]
NoPath == [kind |-> "none", name |-> 0, text |-> <<>>]

NoFile == [exists |-> FALSE, owner |-> 0, content |-> <<>>, open |-> FALSE]

\* ------------------------------------------------------ pure functions
\* str.startswith(prefix), on token sequences
StartsWith(s, prefix) == Len(s) > 0 /\ s[1] = prefix

\* str.lower(), per character
LowerChar(c) == IF c = "A" THEN "a" ELSE IF c = "B" THEN "b" ELSE c
Lower(s) == [i \in 1..Len(s) |-> LowerChar(s[i])]
\* str.replace(' ', '-')
ReplaceSpaces(s) == [i \in 1..Len(s) |-> IF s[i] = " " THEN "-" ELSE s[i]]

\* str(n) for n >= 0
DigitChar(d) == <<"0", "1", "2", "3", "4", "5", "6", "7", "8", "9">>[d + 1]
RECURSIVE IntToStr(_)
IntToStr(n) == IF n < 10 THEN <<DigitChar(n)>>
               ELSE IntToStr(n \div 10) \o <<DigitChar(n % 10)>>

\* hash(str): fixed within a process, seeded per process.
EmailIndex(e) == IF e = "ann@x.io" THEN 1 ELSE 2
PyHash(seed, e) == seed * 5000 * EmailIndex(e) - 3

\* public_id of optimize_video and optimize_video_from_url
MainPublicId(project, email, seed) ==
    <<"cinematic-">> \o ReplaceSpaces(Lower(project)) \o <<"-">>
        \o IntToStr(PyHash(seed, email) % HashMod)
\* public_id of do_POST
IndexPublicId(project, email, seed) ==
    <<"cinematic-">> \o ReplaceSpaces(Lower(project))

PublicId(h, project, email, seed) ==
    IF h = "do_POST" THEN IndexPublicId(project, email, seed)
    ELSE MainPublicId(project, email, seed)

\* video_file.split(",", 1): the index of the first comma, 0 when there is none
FirstComma(s) ==
    IF \E i \in 1..Len(s) : s[i] = ","
    THEN CHOOSE i \in 1..Len(s) : s[i] = "," /\ \A j \in 1..(i - 1) : s[j] # ","
    ELSE 0
\* base64.b64decode of the encoded part; ok = FALSE is binascii.Error
B64Decode(enc) ==
    IF enc = <<>> THEN [ok |-> TRUE, bytes |-> <<>>]
    ELSE IF enc = <<"QQ==">> THEN [ok |-> TRUE, bytes |-> <<65>>]
    ELSE [ok |-> FALSE, bytes |-> <<>>]

\* str(e) of the exceptions the handlers can see
HttpExcStr(status, detail) == IntToStr(status) \o <<": ", detail>>
AttributeErrorStr == <<"'NoneType' object has no attribute 'startswith'">>
ValueErrorStr == <<"not enough values to unpack (expected 2, got 1)">>
BinasciiErrorStr == <<"Incorrect padding">>
FileNotFoundStr == <<"[Errno 2] No such file or directory">>

\* ------------------------------------------------------------ provider
\* What cloudinary.uploader.upload returns for an asset stored under pid with
\* n eager derivatives generated, and what it raises.
NoResult ==
    [ok |-> FALSE, err |-> <<>>, public_id |-> <<>>, secure_url |-> <<>>,
     eager |-> <<>>]
EagerFormat(i) == IF i = 1 THEN "mp4" ELSE "webm"
UploadResult(pid, n) ==
    [ok |-> TRUE, err |-> <<>>, public_id |-> pid,
     secure_url |-> <<"https://res.example/video/upload/">> \o pid \o <<".mov">>,
     eager |-> [i \in 1..n |->
                  <<"https://res.example/video/upload/q_auto:eco/">> \o pid
                      \o <<".", EagerFormat(i)>>]]
UploadError(text) ==
    [ok |-> FALSE, err |-> text, public_id |-> <<>>, secure_url |-> <<>>,
     eager |-> <<>>]
\* Everything one upload call can end in.
UploadOutcomes(pid) ==
    {UploadResult(pid, n) : n \in 0..NumEager}
        \cup {UploadError(<<e>>) : e \in ErrTexts}

\* ------------------------------------------------------ response mapping
\* (a variant of Mp4Url that indexes the second derivative)
Mp4UrlSecond(result) ==
    IF Len(result.eager) > 1 THEN result.eager[2] ELSE result.secure_url
\* upload_result['eager'][0]['secure_url'] if upload_result['eager'] else original_url
Mp4Url(result) ==
    IF Len(result.eager) > 0 THEN result.eager[1] ELSE result.secure_url
\* upload_result['eager'][1]['secure_url'] if len(upload_result['eager']) > 1 else original_url
WebmUrl(result) ==
    IF Len(result.eager) > 1 THEN result.eager[2] ELSE result.secure_url
\* cloudinary.CloudinaryImage(public_id).build_url(resource_type="image", format="jpg", ...)
PosterUrl(h, result) ==
    IF h = "do_POST"
    THEN <<"https://res.example/image/upload/c_scale,h_720,w_1280/">>
             \o result.public_id \o <<".jpg">>
    ELSE <<"https://res.example/image/upload/q_auto:eco/c_scale,h_720,w_1280/so_1.0/">>
             \o result.public_id \o <<".jpg">>

\* generate_embed_code of src/main.py
generate_embed_code(mp4_url, webm_url, poster_url) ==
    <<"<!-- Cinematic Landing Page Video - Optimized by CinematicLandingPage.com -->",
      "<div class=\"cinematic-hero\">", "<video autoplay muted loop playsinline preload=\"auto\"",
      "poster=\"">> \o poster_url \o <<"\">",
      "<source src=\"">> \o webm_url \o <<"\" type=\"video/webm\">",
      "<source src=\"">> \o mp4_url \o <<"\" type=\"video/mp4\">",
      "Your browser does not support the video tag.", "</video>", "</div>",
      "<style>", "</style>",
      "<!-- Performance: Video loads immediately for hero sections -->">>
\* generate_embed_code of src/api/index.py
index_generate_embed_code(mp4_url, webm_url, poster_url) ==
    <<"<!-- Cinematic Landing Page Video -->",
      "<div class=\"cinematic-hero\">", "<video autoplay muted loop playsinline preload=\"auto\"",
      "poster=\"">> \o poster_url \o <<"\">",
      "<source src=\"">> \o webm_url \o <<"\" type=\"video/webm\">",
      "<source src=\"">> \o mp4_url \o <<"\" type=\"video/mp4\">",
      "</video>", "</div>">>
EmbedCode(h, mp4_url, webm_url, poster_url) ==
    IF h = "do_POST" THEN index_generate_embed_code(mp4_url, webm_url, poster_url)
    ELSE generate_embed_code(mp4_url, webm_url, poster_url)

\* ------------------------------------------------------------ responses
Response(status, detail, mp4, webm, poster, embed) ==
    [status |-> status, detail |-> detail, mp4 |-> mp4, webm |-> webm,
     poster |-> poster, embedCode |-> embed]
\* JSONResponse(content=response_data) / send_response(200) + body
SuccessResponse(h, result) ==
    Response(200, <<"Video optimized successfully!">>,
             Mp4Url(result), WebmUrl(result), PosterUrl(h, result),
             EmbedCode(h, Mp4Url(result), WebmUrl(result), PosterUrl(h, result)))
\* (a variant of FailureDetail that drops the exception's text)
GenericFailureDetail(h, text) == <<"Internal Server Error">>
\* The message of the 500 answer for an exception whose str() is text.
FailureDetail(h, text) ==
    IF h = "do_POST" THEN <<"Error processing video: ">> \o text
    ELSE <<"Failed to process video: ">> \o text
\* except Exception as e: raise HTTPException(500, ...) / self.send_error(500, ...)
FailureResponse(h, text) ==
    Response(500, FailureDetail(h, text), <<>>, <<>>, <<>>, <<>>)
\* self.send_error(400, "No video file provided")
ClientErrorResponse(detail) == Response(400, <<detail>>, <<>>, <<>>, <<>>, <<>>)

\* ---------------------------------------------------------------- state
VARIABLES
    hashseed,   \* the process's string-hash seed
    fs,         \* the temporary-file namespace: name -> file
    rq,         \* request slot -> the request's inputs and the handler's locals
    lastUpload  \* the upload parameters of the last finished request that
                \* called the provider (its asset is what the provider holds)

vars == <<hashseed, fs, rq, lastUpload>>

NoUpload ==
    [valid |-> FALSE, handler |-> "none", project |-> <<>>, email |-> "",
     pid |-> <<>>]

Idle ==
    [pc |-> "idle", handler |-> "none",
     ctype |-> Nothing, fileBytes |-> <<>>, vf |-> Nothing,
     project |-> <<>>, email |-> "",
     content |-> <<>>,       \* video_content
     tempName |-> 0,         \* the name NamedTemporaryFile returned, 0 before
     arg |-> NoPath,         \* temp_file_path
     pid |-> <<>>,           \* public_id passed to the provider
     calls |-> 0,            \* provider upload invocations so far
     returned |-> FALSE,     \* the upload call has returned or raised
     result |-> NoResult,    \* upload_result, or the exception raised
     seen |-> NoFile,        \* the file the provider read at temp_file_path
     unlinked |-> <<>>,      \* the targets given to os.unlink
     removed |-> <<>>,       \* the owners of the files those calls deleted
     resps |-> <<>>]         \* the responses written

Init ==
    /\ hashseed \in HashSeeds
    /\ fs = [n \in Names |-> NoFile]
    /\ rq = [r \in Req |-> Idle]
    /\ lastUpload = NoUpload

\* ----------------------------------------------------- handler pieces
\* optimize_video: videoFile.content_type.startswith('video/')
AcceptAnyType(ctype) == TRUE
IsVideoType(ctype) == StartsWith(ctype.val, "video/")

\* if not video_file
IsFalsy(vf) == ~vf.some \/ vf.val = <<>>

\* The handler's code from its entry up to the creation of the temp file.
Ingested(q) ==
    IF q.handler = "optimize_video"
    THEN IF ~q.ctype.some
         THEN [q EXCEPT !.pc = "done",
                        !.resps = <<FailureResponse(q.handler, AttributeErrorStr)>>]
         ELSE IF ~IsVideoType(q.ctype)
         THEN [q EXCEPT !.pc = "done",
                        !.resps = <<FailureResponse(q.handler,
                                       HttpExcStr(400, "File must be a video"))>>]
         ELSE [q EXCEPT !.pc = "create", !.content = q.fileBytes]
    ELSE IF IsFalsy(q.vf)
    THEN IF q.handler = "optimize_video_from_url"
         THEN [q EXCEPT !.pc = "done",
                        !.resps = <<FailureResponse(q.handler,
                                       HttpExcStr(400, "No video file provided"))>>]
         ELSE [q EXCEPT !.pc = "done",
                        !.resps = <<ClientErrorResponse("No video file provided")>>]
    ELSE IF StartsWith(q.vf.val, "data:")
    THEN IF FirstComma(q.vf.val) = 0
         THEN [q EXCEPT !.pc = "done",
                        !.resps = <<FailureResponse(q.handler, ValueErrorStr)>>]
         ELSE LET enc == SubSeq(q.vf.val, FirstComma(q.vf.val) + 1, Len(q.vf.val))
              IN  IF ~B64Decode(enc).ok
                  THEN [q EXCEPT !.pc = "done",
                                 !.resps = <<FailureResponse(q.handler, BinasciiErrorStr)>>]
                  ELSE [q EXCEPT !.pc = "create", !.content = B64Decode(enc).bytes]
    ELSE IF q.handler = "optimize_video_from_url"
    THEN [q EXCEPT !.pc = "upload", !.arg = ClientPath(q.vf.val)]
    ELSE [q EXCEPT !.pc = "done"]

\* (a variant of TempNames that does not look at what exists)
AnyNames(files) == Names
\* The names tempfile.NamedTemporaryFile can return: it opens with O_EXCL, so
\* only a name no existing file has.
TempNames(files) == {n \in Names : ~files[n].exists}

\* (a variant of CleanupTargets that unlinks temp_file_path on every path)
CleanupAlways(q) == <<q.arg>>
\* The paths the handler gives to os.unlink once the upload call is over.
CleanupTargets(q) ==
    IF q.handler = "optimize_video" THEN <<q.arg>>
    ELSE IF q.handler = "optimize_video_from_url" THEN <<>>
    ELSE IF q.result.ok THEN <<q.arg>> ELSE <<>>

\* os.unlink(p) succeeds
CanUnlink(files, p) == p.kind = "tmp" /\ files[p.name].exists
Unlinked(files, targets) ==
    [n \in Names |->
        IF \E i \in 1..Len(targets) :
              targets[i].kind = "tmp" /\ targets[i].name = n
        THEN NoFile ELSE files[n]]

\* The owners of the files that unlinking targets deletes.
RECURSIVE RemovedOwners(_, _)
RemovedOwners(files, targets) ==
    IF targets = <<>> THEN <<>>
    ELSE IF CanUnlink(files, Head(targets))
         THEN <<files[Head(targets).name].owner>>
                  \o RemovedOwners(files, Tail(targets))
         ELSE RemovedOwners(files, Tail(targets))

\* ---------------------------------------------------------------- actions
\* A POST request arrives at one of the three handlers.
Arrive(r, projects, emails) ==
    /\ rq[r].pc = "idle"
    /\ \E h \in Handlers, p \in projects, e \in emails :
          \/ /\ h = "optimize_video"
             /\ \E ct \in ContentTypes, b \in FileBytes :
                   rq' = [rq EXCEPT ![r] =
                            [Idle EXCEPT !.pc = "start", !.handler = h,
                                         !.project = p, !.email = e,
                                         !.ctype = ct, !.fileBytes = b]]
          \/ /\ h # "optimize_video"
             /\ \E v \in VideoFiles :
                   rq' = [rq EXCEPT ![r] =
                            [Idle EXCEPT !.pc = "start", !.handler = h,
                                         !.project = p, !.email = e, !.vf = v]]
    /\ UNCHANGED <<hashseed, fs, lastUpload>>

\* One request at a time, with every input: a process runs the handlers of
\* src/main.py on one event loop, where the upload call blocks, and do_POST
\* on a server that takes one connection at a time.
Receive(r) ==
    /\ \A o \in Req \ {r} : rq[o].pc = "idle"
    /\ Arrive(r, Projects, Emails)

\* Validation, and reading or decoding of the payload.
Ingest(r) ==
    /\ rq[r].pc = "start"
    /\ rq' = [rq EXCEPT ![r] = Ingested(rq[r])]
    /\ UNCHANGED <<hashseed, fs, lastUpload>>

\* with tempfile.NamedTemporaryFile(delete=False, suffix=".mp4") as temp_file:
Create(r) ==
    /\ rq[r].pc = "create"
    /\ \E n \in TempNames(fs) :
          /\ fs' = [fs EXCEPT ![n] = [exists |-> TRUE, owner |-> r,
                                      content |-> <<>>, open |-> TRUE]]
          /\ rq' = [rq EXCEPT ![r].pc = "write", ![r].tempName = n]
    /\ UNCHANGED <<hashseed, lastUpload>>

\* temp_file.write(video_content); temp_file_path = temp_file.name; close
Write(r) ==
    /\ rq[r].pc = "write"
    /\ LET n == rq[r].tempName
       IN  fs' = IF fs[n].exists
                 THEN [fs EXCEPT ![n].content = rq[r].content, ![n].open = FALSE]
                 ELSE fs
    /\ rq' = [rq EXCEPT ![r].pc = "upload", ![r].arg = TmpPath(rq[r].tempName)]
    /\ UNCHANGED <<hashseed, lastUpload>>

\* cloudinary.uploader.upload(temp_file_path, public_id=..., overwrite=True, ...)
Call(r) ==
    /\ rq[r].pc = "upload"
    /\ rq' = [rq EXCEPT ![r].pc = "waiting",
                        ![r].calls = rq[r].calls + 1,
                        ![r].pid = PublicId(rq[r].handler, rq[r].project,
                                            rq[r].email, hashseed)]
    /\ UNCHANGED <<hashseed, fs, lastUpload>>

\* The blocking upload call reads the file and returns a result or raises.
Return(r) ==
    /\ rq[r].pc = "waiting"
    /\ LET a == rq[r].arg
           f == IF a.kind = "tmp" THEN fs[a.name] ELSE NoFile
       IN  \E out \in UploadOutcomes(rq[r].pid) :
              rq' = [rq EXCEPT ![r].pc = "respond",
                               ![r].returned = TRUE,
                               ![r].seen = f,
                               ![r].result =
                                   IF a.kind = "tmp" /\ ~f.exists
                                   THEN UploadError(FileNotFoundStr)
                                   ELSE out]
    /\ UNCHANGED <<hashseed, fs, lastUpload>>

\* Cleanup, response mapping and the response.
Respond(r) ==
    /\ rq[r].pc = "respond"
    /\ LET q == rq[r]
           targets == CleanupTargets(q)
           unlinkFails == \E i \in 1..Len(targets) : ~CanUnlink(fs, targets[i])
           resp == IF unlinkFails THEN FailureResponse(q.handler, FileNotFoundStr)
                   ELSE IF q.result.ok THEN SuccessResponse(q.handler, q.result)
                   ELSE FailureResponse(q.handler, q.result.err)
       IN  /\ fs' = Unlinked(fs, targets)
           /\ rq' = [rq EXCEPT ![r].pc = "done",
                               ![r].unlinked = targets,
                               ![r].removed = RemovedOwners(fs, targets),
                               ![r].resps = <<resp>>]
    /\ UNCHANGED <<hashseed, lastUpload>>

\* The handler has returned; its locals are gone. Files it left behind stay,
\* belonging to no request in flight.
Close(r) ==
    /\ rq[r].pc = "done"
    /\ rq' = [rq EXCEPT ![r] = Idle]
    /\ fs' = [n \in Names |->
                IF fs[n].exists /\ fs[n].owner = r
                THEN [fs[n] EXCEPT !.owner = 0] ELSE fs[n]]
    /\ lastUpload' = IF rq[r].calls > 0
                     THEN [valid |-> TRUE, handler |-> rq[r].handler,
                           project |-> rq[r].project, email |-> rq[r].email,
                           pid |-> rq[r].pid]
                     ELSE lastUpload
    /\ UNCHANGED hashseed

Next ==
    \E r \in Req :
        \/ Receive(r)
        \/ Ingest(r)
        \/ Create(r)
        \/ Write(r)
        \/ Call(r)
        \/ Return(r)
        \/ Respond(r)
        \/ Close(r)

Spec == Init /\ [][Next]_vars

\* Requests in flight together (several workers sharing one temp directory),
\* each with the same project name and customer email.
ReceiveConc(r) == Arrive(r, {<<"A", " ", "b">>}, {"ann@x.io"})

NextConc ==
    \E r \in Req :
        \/ ReceiveConc(r)
        \/ Ingest(r)
        \/ Create(r)
        \/ Write(r)
        \/ Call(r)
        \/ Return(r)
        \/ Respond(r)
        \/ Close(r)

InitConc == Init /\ hashseed = 1

SpecConc == InitConc /\ [][NextConc]_vars

\* ---------------------------------------------------------------- claims
Contains(s, t) ==
    \E i \in 1..(Len(s) - Len(t) + 1) : SubSeq(s, i, i + Len(t) - 1) = t
Statuses(q) == {q.resps[i].status : i \in 1..Len(q.resps)}
\* The request stages a temp file: it has got a name from NamedTemporaryFile.
Staged(q) == q.tempName # 0
\* The request holds a temp file it has not yet had the chance to clean up.
Holding(q) == q.pc \in {"write", "upload", "waiting", "respond"}

\* C1: once a request has completed, the temp file it created is no longer
\* on disk, whether the provider call succeeded or raised.
TempFileGoneWhenDone ==
    \A r \in Req :
        (rq[r].pc = "done" /\ Staged(rq[r]))
            => ~(fs[rq[r].tempName].exists /\ fs[rq[r].tempName].owner = r)

\* C2: on POST /optimize-video a declared content type that does not begin
\* with 'video/' is answered with 400, with no temp file and no provider call.
NonVideoTypeIs400 ==
    \A r \in Req :
        LET q == rq[r]
        IN  (q.handler = "optimize_video" /\ q.ctype.some
                /\ (q.ctype.val = <<>> \/ q.ctype.val[1] # "video/"))
            => /\ ~Staged(q)
               /\ q.calls = 0
               /\ q.pc = "done" => (Len(q.resps) = 1 /\ q.resps[1].status = 400)

\* The video payload of the request is missing or empty (and the request is
\* otherwise well-formed).
EmptyPayload(q) ==
    IF q.handler = "optimize_video"
    THEN q.fileBytes = <<>> /\ q.ctype = Some(<<"video/", "mp4">>)
    ELSE \/ ~q.vf.some
         \/ q.vf.val = <<>>
         \/ q.vf.val = <<"data:", "video/mp4;base64", ",">>

\* C3: in every handler a request whose video payload is missing or empty is
\* answered with 400 and the provider is never called for it.
EmptyPayloadIs400 ==
    \A r \in Req :
        LET q == rq[r]
        IN  (q.handler # "none" /\ EmptyPayload(q))
            => /\ q.calls = 0
               /\ q.pc = "done" => (Len(q.resps) = 1 /\ q.resps[1].status = 400)

\* C4: when the provider upload call raises, the request is answered with
\* status 500 whose message contains the text of the failure, and no 200 is
\* ever sent for it.
ProviderFailureIs500 ==
    \A r \in Req :
        LET q == rq[r]
        IN  (q.returned /\ ~q.result.ok)
            => /\ 200 \notin Statuses(q)
               /\ q.pc = "done" =>
                     /\ Len(q.resps) = 1
                     /\ q.resps[1].status = 500
                     /\ Contains(q.resps[1].detail, q.result.err)
ProviderFailureAnswered ==
    \E r \in Req :
        /\ rq[r].pc = "done" /\ rq[r].returned /\ ~rq[r].result.ok
        /\ rq[r].result.err = <<"Request Timeout">>
        /\ rq[r].handler = "do_POST"
        /\ Len(rq[r].resps) = 1

\* C5: a 200 response carries non-empty mp4, webm and poster URLs, the mp4 URL
\* being the first derivative's and the webm URL the second's, each falling
\* back to the original URL when the derivative is absent, and an embed code
\* generated from exactly these URLs, with the webm and mp4 URLs as <source>
\* values and the poster URL as the poster attribute.
SuccessCarriesUrls ==
    \A r \in Req :
        \A i \in 1..Len(rq[r].resps) :
            LET q == rq[r]
                resp == q.resps[i]
                res == q.result
            IN  resp.status = 200 =>
                  /\ res.ok /\ res.secure_url # <<>>
                  /\ resp.mp4 # <<>> /\ resp.webm # <<>> /\ resp.poster # <<>>
                  /\ resp.mp4 = IF Len(res.eager) >= 1 THEN res.eager[1]
                                ELSE res.secure_url
                  /\ resp.webm = IF Len(res.eager) >= 2 THEN res.eager[2]
                                 ELSE res.secure_url
                  /\ resp.embedCode =
                        EmbedCode(q.handler, resp.mp4, resp.webm, resp.poster)
                  /\ Contains(resp.embedCode,
                              <<"poster=\"">> \o resp.poster \o <<"\">">>)
                  /\ Contains(resp.embedCode,
                              <<"<source src=\"">> \o resp.webm
                                  \o <<"\" type=\"video/webm\">">>)
                  /\ Contains(resp.embedCode,
                              <<"<source src=\"">> \o resp.mp4
                                  \o <<"\" type=\"video/mp4\">">>)
SuccessWithOneDerivative ==
    \E r \in Req :
        /\ rq[r].pc = "done"
        /\ Len(rq[r].resps) = 1 /\ rq[r].resps[1].status = 200
        /\ Len(rq[r].result.eager) = 1
        /\ rq[r].resps[1].webm = rq[r].result.secure_url

\* The request fails the handler's validation.
FailsValidation(q) ==
    IF q.handler = "optimize_video"
    THEN ~q.ctype.some \/ q.ctype.val = <<>> \/ q.ctype.val[1] # "video/"
    ELSE ~q.vf.some \/ q.vf.val = <<>>

TempFilesIsolated ==
    /\ \A r1, r2 \in Req :
          (r1 # r2 /\ Holding(rq[r1]) /\ Staged(rq[r1])
                   /\ Holding(rq[r2]) /\ Staged(rq[r2]))
              => rq[r1].tempName # rq[r2].tempName
    /\ \A r \in Req :
          LET q == rq[r]
          IN  /\ (Holding(q) /\ Staged(q))
                    => (fs[q.tempName].exists /\ fs[q.tempName].owner = r)
              /\ (q.pc \in {"upload", "waiting", "respond"} /\ Staged(q))
                    => fs[q.tempName].content = q.content
              /\ (q.returned /\ Staged(q))
                    => /\ q.seen.exists
                       /\ q.seen.owner = r
                       /\ q.seen.content = q.content
              /\ \A i \in 1..Len(q.removed) : q.removed[i] = r
CleanupBesideWaitingRequest ==
    \E r1, r2 \in Req :
        /\ r1 # r2
        /\ rq[r1].pc = "done" /\ rq[r1].removed = <<r1>>
        /\ rq[r2].pc = "waiting" /\ Staged(rq[r2])
        /\ rq[r2].content # rq[r1].content

\* The hash component of the identifier, for a customer email.
HashValue(e) == PyHash(hashseed, e) % HashMod

\* C8: in every handler the public_id is 'cinematic-' and the normalised
\* project name, and depends on the customer email's hash: two requests to a
\* handler with the same project name and email get the same identifier, and
\* with the same project name and emails of different hash value get
\* different ones.
PublicIdFromProjectAndEmail ==
    \A r \in Req :
        LET q == rq[r]
        IN  (q.calls > 0 /\ lastUpload.valid
                /\ lastUpload.handler = q.handler
                /\ lastUpload.project = q.project)
            => /\ lastUpload.email = q.email => lastUpload.pid = q.pid
               /\ HashValue(lastUpload.email) # HashValue(q.email)
                     => lastUpload.pid # q.pid

\* C9: a handler that has returned has written exactly one response.
ExactlyOneResponse ==
    \A r \in Req : rq[r].pc = "done" => Len(rq[r].resps) = 1

\* C10: every os.unlink target is the name the same request's
\* NamedTemporaryFile returned, every file deleted is one that request
\* created, and a request whose videoFile is passed on as the path or URL
\* creates no temp file and unlinks nothing.
OnlyOwnTempFileUnlinked ==
    \A r \in Req :
        LET q == rq[r]
        IN  /\ \A i \in 1..Len(q.unlinked) :
                  Staged(q) /\ q.unlinked[i] = TmpPath(q.tempName)
            /\ \A i \in 1..Len(q.removed) : q.removed[i] = r
            /\ q.arg.kind = "client"
                  => (~Staged(q) /\ q.unlinked = <<>> /\ q.removed = <<>>)
            /\ \A n \in Names :
                  (fs[n].exists /\ fs[n].owner = r) => n = q.tempName
OwnFileUnlinkedBesideLeftover ==
    \E r \in Req :
        /\ rq[r].pc = "done" /\ rq[r].handler = "optimize_video"
        /\ rq[r].unlinked = <<TmpPath(rq[r].tempName)>>
        /\ rq[r].removed = <<r>>
        /\ \E n \in Names : fs[n].exists /\ fs[n].owner = 0
====
